---- MODULE Spec2Model ----
(***************************************************************************)
(* Model of ecco's output.py: the OutputSeq record (token ids, hidden      *)
(* states, attributions, activations) and its analysis entry points, and   *)
(* the NMF object (reshape_activations, __init__, explore).                *)
(*                                                                         *)
(* Conventions.  Python's None is the empty tuple and a present optional   *)
(* value x is <<x>>.  A numpy array is a record [shape, at]: shape is the  *)
(* tuple of axis sizes and at maps every 0-based index tuple to the value  *)
(* stored there.  Python lists are sequences; list/tensor indices of the   *)
(* source are 0-based and are shifted by one where a sequence is indexed.  *)
(***************************************************************************)
EXTENDS FiniteSets, Integers, Sequences, TLC

VARIABLES token_ids, tokens, n_input_tokens, hidden_states, attribution,
          activations, collect_activations_layer_nums, attention_values, ret

vars == <<token_ids, tokens, n_input_tokens, hidden_states, attribution,
          activations, collect_activations_layer_nums, attention_values, ret>>

\* The fields of the OutputSeq that the analyses read.
record == <<token_ids, tokens, n_input_tokens, hidden_states, attribution,
            activations, collect_activations_layer_nums, attention_values>>

(* ------------------------------ bounds --------------------------------- *)
MaxBatch == 2
MaxLayers == 3
MaxLayerId == 4
MaxTokens == 3
MaxComponents == 3
MaxTopk == 4
MaxWatch == 2

(* sizes of the stand-ins for the external model *)
NNeurons == 2
VocabSize == 3
NHeads == 2

(* ------------------------------ helpers -------------------------------- *)
None == <<>>

Some(x) == <<x>>

IsNone(o) == o = <<>>

Get(o) == o[1]

Min2(a, b) == IF a <= b THEN a ELSE b

Max2(a, b) == IF a >= b THEN a ELSE b

SetMin(S) == CHOOSE x \in S : \A y \in S : x <= y

RECURSIVE SortedSeq(_)
\* Python sorted() of a finite set of integers: ascending.
SortedSeq(S) == IF S = {} THEN <<>>
                ELSE <<SetMin(S)>> \o SortedSeq(S \ {SetMin(S)})

\* Python range(a, b) as a list.
Range(a, b) == [i \in 1..Max2(b - a, 0) |-> a + i - 1]

SeqRange(s) == {s[i] : i \in 1..Len(s)}

RECURSIVE Prod(_)
Prod(s) == IF s = <<>> THEN 1 ELSE s[1] * Prod(Tail(s))

MaxOfSeq(s) == IF s = <<>> THEN 0
               ELSE CHOOSE x \in SeqRange(s) : \A y \in SeqRange(s) : y <= x

\* All 0-based index tuples of an array of the given shape.
Indices(shape) ==
    {ix \in [1..Len(shape) -> 0..(MaxOfSeq(shape) - 1)] :
        \A k \in 1..Len(shape) : ix[k] < shape[k]}

NoArray == [shape |-> <<>>, at |-> <<>>]

(* --------------------------- numpy operations -------------------------- *)
\* activations[:, row_ix]: drop axis 1 of a 4-D array at index row_ix.
TakeLayer(a, row_ix) ==
    LET sh == <<a.shape[1], a.shape[3], a.shape[4]>>
    IN [shape |-> sh,
        at |-> [ix \in Indices(sh) |-> a.at[<<ix[1], row_ix, ix[2], ix[3]>>]]]

RECURSIVE SumAxis1(_)
SumAxis1(rows) == IF rows = <<>> THEN 0
                  ELSE rows[1].shape[2] + SumAxis1(Tail(rows))

RECURSIVE Locate(_, _, _)
\* Which array of the list, and which index inside it, holds position n of
\* the concatenated axis.
Locate(rows, k, n) ==
    IF n < rows[k].shape[2] THEN <<k, n>>
    ELSE Locate(rows, k + 1, n - rows[k].shape[2])

\* np.concatenate(rows, axis=1) of 3-D arrays (batch, neuron, position).
Concatenate(rows) ==
    LET sh == <<rows[1].shape[1], SumAxis1(rows), rows[1].shape[3]>>
    IN [shape |-> sh,
        at |-> [ix \in Indices(sh) |->
                   LET loc == Locate(rows, 1, ix[2])
                   IN rows[loc[1]].at[<<ix[1], loc[2], ix[3]>>]]]

Swapaxes01_NoSwap(a) == a

\* a.swapaxes(0, 1) of a 3-D array.
Swapaxes01(a) ==
    LET sh == <<a.shape[2], a.shape[1], a.shape[3]>>
    IN [shape |-> sh,
        at |-> [ix \in Indices(sh) |-> a.at[<<ix[2], ix[1], ix[3]>>]]]

\* a.reshape(a.shape[0], -1) of a 3-D array: the trailing axes are
\* flattened in C order.
ReshapeRows(a) ==
    LET sh == <<a.shape[1], a.shape[2] * a.shape[3]>>
    IN [shape |-> sh,
        at |-> [ix \in Indices(sh) |->
                   a.at[<<ix[1], ix[2] \div a.shape[3], ix[2] % a.shape[3]>>]]]

\* np.maximum(a, 0).T of a 2-D array.
ClampTranspose(a) ==
    LET sh == <<a.shape[2], a.shape[1]>>
    IN [shape |-> sh,
        at |-> [ix \in Indices(sh) |-> Max2(a.at[<<ix[2], ix[1]>>], 0)]]

(* ---------------------- NMF.reshape_activations ------------------------ *)
\* layer_nums_to_row_ixs: layer id -> storage row (0-based).  For a list
\* with a repeated id the dict keeps the last row.
LayerNumsToRowIxs(layer_nums) ==
    [num \in SeqRange(layer_nums) |->
        (CHOOSE i \in 1..Len(layer_nums) :
            /\ layer_nums[i] = num
            /\ \A j \in 1..Len(layer_nums) : layer_nums[j] = num => j <= i) - 1]

\* Default of a missing to_layer.
DefaultToLayer(act) == act.shape[1]

ResolveFrom(from_layer) == IF IsNone(from_layer) THEN 0 ELSE Get(from_layer)

ResolveTo(act, to_layer) ==
    IF IsNone(to_layer) THEN DefaultToLayer(act) ELSE Get(to_layer)

SameLayerCheck_NoCheck(f, t) == FALSE

\* if from_layer == to_layer: raise
SameLayerCheck(f, t) == f = t

\* if from_layer > to_layer: raise
FromLargerCheck(f, t) == f > t

LayerRange_Inclusive(f, t) == Range(f, t + 1)

\* layer_nums = list(range(from_layer, to_layer))
LayerRange(f, t) == Range(f, t)

AllLayerNums_Unsorted(collected) == collected

\* layer_nums when no bound is given.
AllLayerNums(collected) == SortedSeq(SeqRange(collected))

MissingLayers_FirstOnly(layer_nums, ixs) ==
    layer_nums # <<>> /\ layer_nums[1] \notin DOMAIN ixs

\* any([num not in layer_nums_to_row_ixs for num in layer_nums])
MissingLayers(layer_nums, ixs) ==
    \E k \in 1..Len(layer_nums) : layer_nums[k] \notin DOMAIN ixs

ReshapeOk(m, f, t) ==
    [err |-> "NoError", from_layer |-> f, to_layer |-> t,
     available |-> <<>>, matrix |-> m]

ReshapeErr(e, f, t, avail) ==
    [err |-> e, from_layer |-> f, to_layer |-> t,
     available |-> avail, matrix |-> NoArray]

\* Lines 671-683: gather the rows, merge layer and neuron axes, flatten.
MergeRows(act, row_ixs) ==
    LET activation_rows == [k \in 1..Len(row_ixs) |-> TakeLayer(act, row_ixs[k])]
    IN ReshapeRows(Swapaxes01(Concatenate(activation_rows)))

reshape_activations(act, from_layer, to_layer, collected_arg) ==
    IF Len(act.shape) # 4
    THEN ReshapeErr("NotFourDims", from_layer, to_layer, <<>>)
    ELSE
    LET collected == IF IsNone(collected_arg)
                     THEN Range(0, act.shape[2])
                     ELSE Get(collected_arg)
        ixs == LayerNumsToRowIxs(collected)
        ranged == ~IsNone(from_layer) \/ ~IsNone(to_layer)
        f == ResolveFrom(from_layer)
        t == ResolveTo(act, to_layer)
        layer_nums == IF ranged THEN LayerRange(f, t) ELSE AllLayerNums(collected)
        rf == IF ranged THEN Some(f) ELSE from_layer
        rt == IF ranged THEN Some(t) ELSE to_layer
    IN  IF ranged /\ SameLayerCheck(f, t)
        THEN ReshapeErr("SameLayer", rf, rt, <<>>)
        ELSE IF ranged /\ FromLargerCheck(f, t)
        THEN ReshapeErr("FromLarger", rf, rt, <<>>)
        ELSE IF MissingLayers(layer_nums, ixs)
        THEN ReshapeErr("LayersNotRecorded", rf, rt, SortedSeq(DOMAIN ixs))
        ELSE IF \E k \in 1..Len(layer_nums) : layer_nums[k] \notin DOMAIN ixs
        THEN \* layer_nums_to_row_ixs[layer_num] of an id the dict lacks
             ReshapeErr("KeyError", rf, rt, <<>>)
        ELSE IF layer_nums = <<>>
        THEN \* np.concatenate of an empty list
             ReshapeErr("ConcatenateEmpty", rf, rt, <<>>)
        ELSE ReshapeOk(MergeRows(act, [k \in 1..Len(layer_nums) |-> ixs[layer_nums[k]]]),
                       rf, rt)

(* ----------------------------- NMF.__init__ ---------------------------- *)
NoNMF == [made |-> FALSE]

\* `activations == []`: true of the empty list only.  None is not equal to
\* a list, and neither is an ndarray.
IsEmptyList(a) == a.kind = "list"

CapComponents_Positions(n_components, merged_act, act) ==
    Min2(n_components, act.shape[4])

\* n_components = min([n_components, n_output_tokens]) with
\* n_output_tokens = activations.shape[-1] of the merged matrix.
CapComponents(n_components, merged_act, act) ==
    Min2(n_components, merged_act.shape[2])

\* sklearn's decomposition.NMF(...).fit_transform(X).T: an external
\* factorization; only the shape (n_components, samples) is modelled, the
\* entries are placeholders.
FitTransformT(X, k) ==
    LET sh == <<k, X.shape[1]>>
    IN [shape |-> sh, at |-> [ix \in Indices(sh) |-> ix[1] * X.shape[1] + ix[2]]]

\* The constructor's outcome: [err, stage, obj].  stage is the place the
\* error was raised.
NMFInit(act, nin, tids, toks, collected, n_components, from_layer, to_layer) ==
    IF IsEmptyList(act)
    THEN [err |-> "NoActivationData", stage |-> "init", obj |-> NoNMF]
    ELSE IF act.kind # "ndarray"
    THEN \* len(activations.shape): None has no attribute 'shape'
         [err |-> "AttributeError", stage |-> "reshape_activations", obj |-> NoNMF]
    ELSE
    LET r == reshape_activations(act.arr, from_layer, to_layer, collected)
    IN  IF r.err # "NoError"
        THEN [err |-> r.err, stage |-> "reshape_activations", obj |-> NoNMF]
        ELSE LET k == CapComponents(n_components, r.matrix, act.arr)
                 X == ClampTranspose(r.matrix)
             IN [err |-> "NoError", stage |-> "done",
                 obj |-> [made |-> TRUE,
                          token_ids |-> tids,
                          n_input_tokens |-> nin,
                          tokens |-> toks,
                          n_components |-> k,
                          activations |-> X,
                          components |-> FitTransformT(X, k)]]

(* ------------------- external model: lm_head, tokenizer ---------------- *)
Vocab == 0..(VocabSize - 1)

\* Output-head weights: one row <<w1, w2>> per token id.  Column 1 orders
\* the vocabulary strictly, column 2 scores all tokens but the first alike.
HeadWeights(v) == <<VocabSize - 1 - v, Min2(v, 1)>>

\* self.lm_head(hidden_state): the linear projection to logits.
LmHead(h) == [v \in Vocab |-> HeadWeights(v)[1] * h[1] + HeadWeights(v)[2] * h[2]]

TokenText == <<"t0", "t1", "t2", "t3", "t4", "t5", "t6", "t7">>

\* self.tokenizer.decode(t)
Decode(t) == TokenText[t + 1]

RECURSIVE Pow2(_)
Pow2(n) == IF n <= 0 THEN 1 ELSE 2 * Pow2(n - 1)

FnMin(x) == CHOOSE m \in {x[v] : v \in DOMAIN x} : \A v \in DOMAIN x : m <= x[v]

RECURSIVE SumNum(_, _)
SumNum(x, S) == IF S = {} THEN 0
                ELSE LET v == CHOOSE u \in S : TRUE
                     IN Pow2(x[v] - FnMin(x)) + SumNum(x, S \ {v})

\* F.softmax(logits, dim=-1) as exact fractions num/den over a common
\* denominator (base 2 in place of e: the same order and the same ties).
Softmax(logits) ==
    LET mn == FnMin(logits)
        den == SumNum(logits, DOMAIN logits)
    IN [v \in DOMAIN logits |-> [num |-> Pow2(logits[v] - mn), den |-> den]]

ProbLess(p, q) == p.num * q.den < q.num * p.den

\* The orders in which the sort may leave equal elements, one per call: a
\* priority for every token id, lower first.  Ascending index order and
\* its rotations, and descending index order.
TieBreaks ==
    {[v \in Vocab |-> (start + v) % VocabSize] : start \in Vocab}
    \cup {[v \in Vocab |-> VocabSize - 1 - v]}

RECURSIVE SortIndices(_, _, _)
\* The indices of S by ascending key, equal keys by ascending priority.
SortIndices(S, keys, tb) ==
    IF S = {} THEN <<>>
    ELSE LET m == CHOOSE v \in S :
                     \A u \in S : \/ keys[v] < keys[u]
                                  \/ (keys[v] = keys[u] /\ tb[v] <= tb[u])
         IN <<m>> \o SortIndices(S \ {m}, keys, tb)

\* torch.argsort: the indices in ascending order of their keys; equal keys
\* in the order tb gives.
ArgSortWith(keys, tb) == SortIndices(Vocab, keys, tb)

ArgSortLogits(logits, tb) == ArgSortWith(logits, tb)

\* The probabilities share their denominator: their order is the order of
\* the numerators.
ArgSortProbs(sm, tb) == ArgSortWith([v \in Vocab |-> sm[v].num], tb)

\* s[a:] of a Python sequence.
PySliceFrom(s, a) ==
    LET start == IF a < 0 THEN Max2(Len(s) + a, 0) ELSE Min2(a, Len(s))
    IN SubSeq(s, start + 1, Len(s))

Reverse(s) == [k \in 1..Len(s) |-> s[Len(s) + 1 - k]]

(* ---------------------- OutputSeq.layer_predictions -------------------- *)
TopSlice_NoReverse(sorted_softmax, k) == PySliceFrom(sorted_softmax, -k)

\* sorted_softmax[-k:] ... [::-1]
TopSlice(sorted_softmax, k) == Reverse(PySliceFrom(sorted_softmax, -k))

\* One pass of the loop body (lines 335-358) for the hidden state h.
LayerTopk(h, k, layer_num, tb) ==
    LET softmax == Softmax(LmHead(h))
        top == TopSlice(ArgSortProbs(softmax, tb), k)
    IN [idx \in 1..Len(top) |->
           [token |-> Decode(top[idx]),
            prob |-> softmax[top[idx]],
            ranking |-> idx,
            layer |-> layer_num]]

layer_predictions(hs, position, topk, layer, tb) ==
    IF position = 0 THEN [err |-> "PositionZero", data |-> <<>>]
    ELSE IF ~IsNone(layer) /\ Get(layer) + 1 >= Len(hs)
    THEN [err |-> "IndexError", data |-> <<>>]
    ELSE
    LET sel == IF ~IsNone(layer) THEN <<hs[Get(layer) + 2]>> ELSE Tail(hs)
    IN  IF \E i \in 1..Len(sel) : position - 1 >= Len(sel[i])
        THEN [err |-> "IndexError", data |-> <<>>]
        ELSE [err |-> "NoError",
              data |-> [i \in 1..Len(sel) |->
                           LayerTopk(sel[i][position], topk,
                                     IF ~IsNone(layer) THEN Get(layer) ELSE i - 1, tb)]]

(* --------------- OutputSeq.rankings / rankings_watch ------------------- *)
\* torch.nonzero((sorted == token_id)).flatten(): the 0-based indices.
NonzeroEq(sorted, token_id) == {k - 1 : k \in {j \in 1..Len(sorted) : sorted[j] = token_id}}

RankFrom_ZeroBased(sorted, r) == Len(sorted) - r - 1

\* ranking = sorted.shape[0] - r
RankFrom(sorted, r) == Len(sorted) - r

RankOf_AbsentIsLast(h, token_id, tb) ==
    LET sorted == ArgSortLogits(LmHead(h), tb)
        r == NonzeroEq(sorted, token_id)
    IN [err |-> "NoError",
        rank |-> IF r = {} THEN Len(sorted) + 1
                 ELSE RankFrom(sorted, CHOOSE x \in r : TRUE)]

\* Lines 407-420 and 463-472: [err, rank] for one hidden state and target.
RankOf(h, token_id, tb) ==
    LET sorted == ArgSortLogits(LmHead(h), tb)
        r == NonzeroEq(sorted, token_id)
    IN IF Cardinality(r) # 1
       THEN \* int() of a tensor that does not hold exactly one element
            [err |-> "TokenNotFound", rank |-> 0]
       ELSE [err |-> "NoError", rank |-> RankFrom(sorted, CHOOSE x \in r : TRUE)]

\* First error of a matrix of cell outcomes in loop order, or "NoError".
FirstErr(cells) ==
    LET bad == {c \in DOMAIN cells : cells[c].err # "NoError"}
        first == CHOOSE c \in bad : \A e \in bad : c[1] < e[1] \/ (c[1] = e[1] /\ c[2] <= e[2])
    IN IF bad = {} THEN "NoError" ELSE cells[first].err

rankings(hs, tids, nin, tb) ==
    LET n_layers == Len(hs)
        position == Len(hs[1]) - nin + 1
        cells == [c \in (1..(n_layers - 1)) \X (1..position) |->
                     IF nin + c[2] > Len(tids[1])
                     THEN [err |-> "IndexError", rank |-> 0]
                     ELSE RankOf(hs[c[1] + 1][nin - 1 + c[2]], tids[1][nin + c[2]], tb)]
        e == FirstErr(cells)
    IN IF e # "NoError" THEN [err |-> e, rankings |-> <<>>, predicted_tokens |-> <<>>]
       ELSE [err |-> "NoError",
             rankings |-> [i \in 1..(n_layers - 1) |-> [j \in 1..position |-> cells[<<i, j>>].rank]],
             predicted_tokens |-> [i \in 1..(n_layers - 1) |->
                                      [j \in 1..position |-> Decode(tids[1][nin + j])]]]

\* if position != -1: position = position - 1
WatchIndex(position) == IF position # -1 THEN position - 1 ELSE position

\* level[position] with Python's negative indexing: <<found, 1-based index>>.
PyIndex(n, ix) == IF ix >= 0 /\ ix < n THEN <<TRUE, ix + 1>>
                  ELSE IF ix < 0 /\ -ix <= n THEN <<TRUE, n + ix + 1>>
                  ELSE <<FALSE, 0>>

rankings_watch(hs, watch, position_arg, tb) ==
    LET n_layers == Len(hs)
        position == WatchIndex(position_arg)
        cells == [c \in (1..(n_layers - 1)) \X (1..Len(watch)) |->
                     LET at == PyIndex(Len(hs[c[1] + 1]), position)
                     IN IF ~at[1] THEN [err |-> "IndexError", rank |-> 0]
                        ELSE RankOf(hs[c[1] + 1][at[2]], watch[c[2]], tb)]
        e == FirstErr(cells)
    IN IF e # "NoError" THEN [err |-> e, rankings |-> <<>>]
       ELSE [err |-> "NoError",
             rankings |-> [i \in 1..(n_layers - 1) |-> [j \in 1..Len(watch) |-> cells[<<i, j>>].rank]]]

(* --------------------------- OutputSeq.position ------------------------ *)
\* len(self.tokens) - 1: the upper end of the accepted range.
LastPosition(toks) == Len(toks) - 1

\* [err, lo, hi, importance_id, data]; lo and hi are the range the error
\* message carries.
position_view(toks, tids, nin, attr, position) ==
    LET hi == LastPosition(toks)
    IN IF position < nin \/ position > hi
       THEN [err |-> "InvalidPosition", lo |-> nin, hi |-> hi,
             importance_id |-> None, data |-> <<>>]
       ELSE
       LET importance_id == position - nin
       IN IF importance_id >= Len(attr)
          THEN \* attribution[importance_id]
               [err |-> "IndexError", lo |-> nin, hi |-> hi,
                importance_id |-> Some(importance_id), data |-> <<>>]
          ELSE IF \E idx \in 1..Len(toks) : Len(tids[idx]) # 1
          THEN \* int(self.token_ids[idx]) of a row of several ids
               [err |-> "ScalarConversion", lo |-> nin, hi |-> hi,
                importance_id |-> Some(importance_id), data |-> <<>>]
          ELSE [err |-> "NoError", lo |-> nin, hi |-> hi,
                importance_id |-> Some(importance_id),
                data |-> [idx \in 1..Len(toks) |->
                             [token |-> toks[idx],
                              token_id |-> tids[idx][1],
                              type |-> IF idx - 1 < nin THEN "input" ELSE "output",
                              value |-> IF idx - 1 < Len(attr[importance_id + 1])
                                        THEN attr[importance_id + 1][idx]
                                        ELSE -1]]]

(* ------------- OutputSeq.explorable / saliency / attention ------------- *)
\* The token dicts of the first sequence of the batch (lines 105-112).
explorable(toks, tids, nin) ==
    [err |-> "NoError",
     data |-> [tokens |-> [idx \in 1..Len(toks[1]) |->
                              [token |-> toks[1][idx],
                               token_id |-> tids[1][idx],
                               type |-> IF idx - 1 < nin THEN "input" ELSE "output"]]]]

\* saliency(printJson=True): importance_id is position - n_input_tokens
\* with position = n_input_tokens, the first generated token.
saliency(toks, tids, nin, attr) ==
    LET importance_id == nin - nin
    IN IF Len(toks[1]) > 0 /\ importance_id >= Len(attr)
       THEN \* attribution[importance_id] of a record without generated tokens
            [err |-> "IndexError", data |-> <<>>]
       ELSE [err |-> "NoError",
             data |-> [tokens |-> [idx \in 1..Len(toks[1]) |->
                                      [token |-> toks[1][idx],
                                       token_id |-> tids[1][idx],
                                       type |-> IF idx - 1 < nin THEN "input" ELSE "output",
                                       value |-> IF idx - 1 < Len(attr[importance_id + 1])
                                                 THEN attr[importance_id + 1][idx]
                                                 ELSE 0,
                                       position |-> idx - 1]],
                       attributions |-> attr]]

RECURSIVE SumHeads(_, _, _)
SumHeads(a, ix, h) ==
    IF h < 0 THEN 0
    ELSE a.at[<<ix[1], h, ix[2], ix[3]>>] + SumHeads(a, ix, h - 1)

\* attn.sum(axis=1) / attn.shape[1]: the mean over the heads of a
\* (batch, head, position, position) tensor, as exact fractions.
HeadMean(a) ==
    LET sh == <<a.shape[1], a.shape[3], a.shape[4]>>
    IN [shape |-> sh,
        at |-> [ix \in Indices(sh) |->
                   [num |-> SumHeads(a, ix, a.shape[2] - 1), den |-> a.shape[2]]]]

\* attention(layer=layer, printJson=True) with no attention_values argument.
\* The loop runs over self.tokens and converts self.token_ids[idx].
attention(toks, tids, nin, attn_values, layer) ==
    IF layer >= Len(attn_values)
    THEN \* self.attention_values[layer]
         [err |-> "IndexError", data |-> <<>>]
    ELSE
    LET attn == HeadMean(attn_values[layer + 1])
        importance_id == nin - 1
    IN IF Len(toks) > 0 /\ importance_id >= attn.shape[2]
       THEN \* attn[0][importance_id]
            [err |-> "IndexError", data |-> <<>>]
       ELSE IF \E idx \in 1..Len(toks) : Len(tids[idx]) # 1
       THEN \* int(self.token_ids[idx]) of a row of several ids
            [err |-> "ScalarConversion", data |-> <<>>]
       ELSE [err |-> "NoError",
             data |-> [tokens |-> [idx \in 1..Len(toks) |->
                                      [token |-> toks[idx],
                                       token_id |-> tids[idx][1],
                                       type |-> IF idx - 1 < nin THEN "input" ELSE "output",
                                       value |-> IF idx - 1 < attn.shape[3]
                                                 THEN Some(attn.at[<<0, importance_id, idx - 1>>])
                                                 ELSE Some([num |-> 0, den |-> 1]),
                                       position |-> idx - 1]],
                       attributions |-> [i \in 1..attn.shape[2] |->
                                            [j \in 1..attn.shape[3] |->
                                                attn.at[<<0, i - 1, j - 1>>]]]]]

(* ------------------------------ NMF.explore ---------------------------- *)
\* s[:n] of a Python sequence.
PySliceTo(s, n) ==
    LET stop == IF n < 0 THEN Max2(Len(s) + n, 0) ELSE Min2(n, Len(s))
    IN SubSeq(s, 1, stop)

\* The rows of a 2-D array as lists (comp.tolist() for comp in ...).
RowsOf(a) ==
    [i \in 1..a.shape[1] |-> [j \in 1..a.shape[2] |-> a.at[<<i - 1, j - 1>>]]]

DuplicateBoundary_NoDuplicate(comp, nin) ==
    PySliceTo(comp, nin) \o PySliceFrom(comp, nin)

\* np.concatenate([comp[:n_input_tokens], comp[n_input_tokens - 1:]])
DuplicateBoundary(comp, nin) ==
    PySliceTo(comp, nin) \o PySliceFrom(comp, nin - 1)

\* explore(input_sequence, printJson=True) on an NMF object.
explore(obj, input_sequence) ==
    IF input_sequence >= Len(obj.tokens)
    THEN \* self.tokens[input_sequence]
         [err |-> "IndexError", data |-> <<>>]
    ELSE
    LET toks == obj.tokens[input_sequence + 1]
        tids == obj.token_ids[input_sequence + 1]
        comps == RowsOf(obj.components)
        factors == IF Len(tids) # obj.n_input_tokens
                   THEN [k \in 1..Len(comps) |->
                            DuplicateBoundary(comps[k], obj.n_input_tokens)]
                   ELSE comps
    IN [err |-> "NoError",
        data |-> [tokens |-> [idx \in 1..Len(toks) |->
                                 [token |-> toks[idx],
                                  token_id |-> tids[idx],
                                  type |-> IF idx - 1 < obj.n_input_tokens
                                           THEN "input" ELSE "output",
                                  position |-> idx - 1]],
                  factors |-> <<factors>>]]

(* ------------------------------- records ------------------------------- *)
\* Hidden-state vectors the model runner may have produced: their logits
\* are strictly ordered, tied at the top, strictly ordered the other way,
\* and all equal.
HiddenVecs == <<<<1, 0>>, <<1, 1>>, <<-1, 0>>, <<0, 0>>>>

\* hidden_states: (layer, position, hidden_dimension); layer 1 of the
\* sequence is the embedding layer.  Neighbouring layers and positions hold
\* different vectors.
HiddenStates(n_layers, n_pos, seed) ==
    [l \in 1..n_layers |->
        [p \in 1..n_pos |-> HiddenVecs[((seed + l + 2 * p) % Len(HiddenVecs)) + 1]]]

\* token_ids: (batch, position)
TokenIds(B, T, seed) ==
    [b \in 1..B |-> [i \in 1..T |-> (seed + i + b) % VocabSize]]

\* tokens: (batch, position), the text of each token id
TokensOf(tids) == [b \in 1..Len(tids) |-> [i \in 1..Len(tids[b]) |-> Decode(tids[b][i])]]

\* attribution['grad_x_input']: one importance vector per generated token,
\* over the tokens before it.
Attribution(T, nin) ==
    [o \in 1..(T - nin) |-> [idx \in 1..(nin + o - 1) |-> 10 * o + idx]]

\* An activation tensor whose entries are pairwise distinct, two of them
\* negative.
Tensor(shape) ==
    [shape |-> shape,
     at |-> [ix \in Indices(shape) |->
                LET Flat[k \in 0..Len(shape)] ==
                        IF k = 0 THEN 0 ELSE Flat[k - 1] * shape[k] + ix[k]
                IN Flat[Len(shape)] - 2]]

\* attention: one (batch, head, position, position) tensor per layer above
\* the embedding layer.
AttentionValues(n_layers, B, n_pos) ==
    [l \in 1..(n_layers - 1) |-> Tensor(<<B, NHeads, n_pos, n_pos>>)]

\* ret while no call has returned: the caller is idle.
NoCall == [op |-> "none", err |-> "NoError"]

InjectiveSeqs(n, S) ==
    {s \in [1..n -> S] : \A a, b \in 1..n : s[a] = s[b] => a = b}

\* Positions that passed through the model: every token but the last
\* generated one.
NPositions(T, nin) == IF nin < T THEN T - 1 ELSE T

\* The values of collect_activations_layer_nums for a tensor of L layers:
\* absent, or L distinct layer ids.  Every such list is tried on the
\* smallest tensor; the larger tensors come with the ids 0..L-1 absent and
\* in descending order.
CollectedChoices(small, L) ==
    {None}
    \cup (IF small THEN {Some(s) : s \in InjectiveSeqs(L, 0..MaxLayerId)}
          ELSE {Some([i \in 1..L |-> L - i])})

InitNMF ==
    \E B \in 1..MaxBatch, T \in 2..MaxTokens, L \in 1..MaxLayers :
    \E nin \in 1..T :
    \E coll \in CollectedChoices(B = 1 /\ T = 2 /\ nin = 1, L) :
    \E a \in {[kind |-> "ndarray", arr |-> Tensor(<<B, L, NNeurons, NPositions(T, nin)>>)]}
             \cup (IF IsNone(coll) /\ L = 1
                   THEN {[kind |-> "None"], [kind |-> "list"],
                         [kind |-> "ndarray", arr |-> Tensor(<<B, NNeurons, NPositions(T, nin)>>)]}
                   ELSE {}) :
        /\ token_ids = TokenIds(B, T, 0)
        /\ tokens = TokensOf(TokenIds(B, T, 0))
        /\ n_input_tokens = nin
        /\ hidden_states = HiddenStates(2, NPositions(T, nin), 0)
        /\ attribution = Attribution(T, nin)
        /\ activations = a
        /\ collect_activations_layer_nums = coll
        /\ attention_values = AttentionValues(2, B, NPositions(T, nin))
        /\ ret = NoCall

\* Every hidden-state tensor is tried on a single sequence with one input
\* token; batches of several sequences and longer inputs come with the
\* first tensor of two layers.
InitRank ==
    \E B \in 1..MaxBatch, T \in 2..MaxTokens, n_layers \in 2..MaxLayers :
    \E nin \in 1..(T - 1), seed \in 0..(Len(HiddenVecs) - 1) :
        /\ (B > 1 \/ nin > 1) => (n_layers = 2 /\ seed = 0)
        /\ token_ids = TokenIds(B, T, seed)
        /\ tokens = TokensOf(TokenIds(B, T, seed))
        /\ n_input_tokens = nin
        /\ hidden_states = HiddenStates(n_layers, T - 1, seed)
        /\ attribution = Attribution(T, nin)
        /\ activations = [kind |-> "None"]
        /\ collect_activations_layer_nums = None
        /\ attention_values = AttentionValues(n_layers, B, T - 1)
        /\ ret = NoCall

(* ------------------------------- actions ------------------------------- *)
OptLayerArgs == {None} \cup {Some(x) : x \in 0..MaxLayers}

\* NMF.reshape_activations(activations, from_layer, to_layer,
\*                         collect_activations_layer_nums)
ReshapeActivations ==
    /\ ret = NoCall
    /\ activations.kind = "ndarray"
    /\ \E from_layer \in OptLayerArgs, to_layer \in OptLayerArgs :
          LET r == reshape_activations(activations.arr, from_layer, to_layer,
                                       collect_activations_layer_nums)
          IN ret' = [op |-> "reshape_activations",
                     args |-> [from_layer |-> from_layer, to_layer |-> to_layer],
                     err |-> r.err, out |-> r]
    /\ UNCHANGED record

CallerTensorAfterInit_ClampedInPlace(a) ==
    [a EXCEPT !.at = [ix \in DOMAIN a.at |-> Max2(a.at[ix], 0)]]

\* The tensor handed to NMF.__init__ once the constructor has completed:
\* np.concatenate builds the merged matrix as a new array and np.maximum
\* allocates its result, so no entry of the argument is written.
CallerTensorAfterInit(a) == a

\* OutputSeq.run_nmf(n_components=..., from_layer=..., to_layer=...)
RunNmf ==
    /\ ret = NoCall
    /\ \E n_components \in 1..MaxComponents :
       \E from_layer \in OptLayerArgs, to_layer \in OptLayerArgs :
          LET r == NMFInit(activations, n_input_tokens, token_ids, tokens,
                           collect_activations_layer_nums,
                           n_components, from_layer, to_layer)
          IN /\ ret' = [op |-> "run_nmf",
                        args |-> [n_components |-> n_components,
                                  from_layer |-> from_layer, to_layer |-> to_layer],
                        err |-> r.err, out |-> r]
             /\ activations' = IF r.err = "NoError"
                               THEN [activations EXCEPT !.arr = CallerTensorAfterInit(@)]
                               ELSE activations
    /\ UNCHANGED <<token_ids, tokens, n_input_tokens, hidden_states, attribution,
                   collect_activations_layer_nums, attention_values>>

\* OutputSeq.layer_predictions(position, topk, layer, printJson=True)
LayerPredictions ==
    /\ ret = NoCall
    /\ \E position \in 0..MaxTokens, topk \in 0..MaxTopk :
       \E layer \in {None} \cup {Some(x) : x \in 0..(MaxLayers - 1)}, tb \in TieBreaks :
          LET r == layer_predictions(hidden_states, position, topk, layer, tb)
          IN ret' = [op |-> "layer_predictions",
                     args |-> [position |-> position, topk |-> topk, layer |-> layer],
                     err |-> r.err, out |-> r]
    /\ UNCHANGED record

\* OutputSeq.rankings(printJson=True)
Rankings ==
    /\ ret = NoCall
    /\ \E tb \in TieBreaks :
          LET r == rankings(hidden_states, token_ids, n_input_tokens, tb)
          IN ret' = [op |-> "rankings", args |-> <<>>, err |-> r.err, out |-> r]
    /\ UNCHANGED record

\* Watch lists: distinct token ids in ascending or in descending order; the
\* id VocabSize is not in the vocabulary.
WatchLists ==
    {w \in UNION {[1..n -> 0..VocabSize] : n \in 0..MaxWatch} :
        \/ \A k \in 1..(Len(w) - 1) : w[k] < w[k + 1]
        \/ \A k \in 1..(Len(w) - 1) : w[k] > w[k + 1]}

\* OutputSeq.rankings_watch(watch, position, printJson=True)
RankingsWatch ==
    /\ ret = NoCall
    /\ \E watch \in WatchLists, position \in (-1)..MaxTokens, tb \in TieBreaks :
          LET r == rankings_watch(hidden_states, watch, position, tb)
          IN ret' = [op |-> "rankings_watch",
                     args |-> [watch |-> watch, position |-> position],
                     err |-> r.err, out |-> r]
    /\ UNCHANGED record

\* OutputSeq.position(position)
Position ==
    /\ ret = NoCall
    /\ \E position \in 0..(MaxTokens + 1) :
          LET r == position_view(tokens, token_ids, n_input_tokens, attribution, position)
          IN ret' = [op |-> "position", args |-> [position |-> position],
                     err |-> r.err, out |-> r]
    /\ UNCHANGED record

\* OutputSeq.explorable(printJson=True)
Explorable ==
    /\ ret = NoCall
    /\ LET r == explorable(tokens, token_ids, n_input_tokens)
       IN ret' = [op |-> "explorable", args |-> <<>>, err |-> r.err, out |-> r]
    /\ UNCHANGED record

\* OutputSeq.saliency(printJson=True), also reached by calling the record
\* with no position.
Saliency ==
    /\ ret = NoCall
    /\ LET r == saliency(tokens, token_ids, n_input_tokens, attribution)
       IN ret' = [op |-> "saliency", args |-> <<>>, err |-> r.err, out |-> r]
    /\ UNCHANGED record

\* OutputSeq.attention(layer=layer, printJson=True)
Attention ==
    /\ ret = NoCall
    /\ \E layer \in 0..(MaxLayers - 1) :
          LET r == attention(tokens, token_ids, n_input_tokens, attention_values, layer)
          IN ret' = [op |-> "attention", args |-> [layer |-> layer],
                     err |-> r.err, out |-> r]
    /\ UNCHANGED record

\* NMF.explore(input_sequence, printJson=True) on the object run_nmf
\* returned.
Explore ==
    /\ ret.op = "run_nmf" /\ ret.err = "NoError"
    /\ \E input_sequence \in 0..(MaxBatch - 1) :
          LET r == explore(ret.out.obj, input_sequence)
          IN ret' = [op |-> "explore", args |-> [input_sequence |-> input_sequence],
                     err |-> r.err, out |-> r, nmf |-> ret.out.obj]
    /\ UNCHANGED record

\* The caller takes the result (or the exception) and is idle again.
Return ==
    /\ ret # NoCall
    /\ ret' = NoCall
    /\ UNCHANGED record

NextNMF ==
    \/ ReshapeActivations
    \/ RunNmf
    \/ Explore
    \/ Return

NextRank ==
    \/ LayerPredictions
    \/ Rankings
    \/ RankingsWatch
    \/ Position
    \/ Return

\* Records with collected activations, under the NMF entry points.
SpecNMF == InitNMF /\ [][NextNMF]_vars

\* Records with hidden states of several layers, under the layer analyses.
SpecRank == InitRank /\ [][NextRank]_vars

\* A record with several layers of hidden states, or a single sequence
\* with one input token and collected activations of all its layers.
InitAll ==
    \/ InitRank
    \/ /\ InitNMF
       /\ Len(token_ids) = 1
       /\ n_input_tokens = 1
       /\ IsNone(collect_activations_layer_nums)

NextAll ==
    \/ LayerPredictions
    \/ Rankings
    \/ RankingsWatch
    \/ Saliency
    \/ Position
    \/ Attention
    \/ Explorable
    \/ RunNmf
    \/ Explore
    \/ Return

\* Every record, under every analysis entry point.
SpecAll == InitAll /\ [][NextAll]_vars

(* ------------- the ranking loops, one iteration at a time -------------- *)
\* np.zeros((n_rows, n_cols), dtype=np.int32)
Zeros(n_rows, n_cols) == [i \in 1..n_rows |-> [j \in 1..n_cols |-> 0]]

\* The iterations (i, j) of the nested loops, 0-based as enumerate counts.
LoopIterations(n_rows, n_cols) == (0..(n_rows - 1)) \X (0..(n_cols - 1))

RankingsCell_Column0(i, j) == <<i, 0>>

\* rankings[i, j] = int(ranking) (line 420): the cell iteration (i, j)
\* assigns.
RankingsCell(i, j) == <<i, j>>

WatchCell_Column0(i, j) == <<i, 0>>

\* rankings[i, j] = int(ranking) (line 472)
WatchCell(i, j) == <<i, j>>

\* Body of the loops of rankings for iteration (i, j): lines 407-420.
RankingsBody(hs, tids, nin, i, j, tb) ==
    IF nin + j >= Len(tids[1])
    THEN \* self.token_ids[0][self.n_input_tokens + j]
         [err |-> "IndexError", rank |-> 0, cell |-> RankingsCell(i, j)]
    ELSE LET r == RankOf(hs[i + 2][nin + j], tids[1][nin + j + 1], tb)
         IN [err |-> r.err, rank |-> r.rank, cell |-> RankingsCell(i, j)]

\* Body of the loops of rankings_watch for iteration (i, j): lines 460-472.
\* position is the index after the adjustment of lines 446-447.
WatchBody(hs, watch, position, i, j, tb) ==
    LET at == PyIndex(Len(hs[i + 2]), position)
    IN IF ~at[1]
       THEN [err |-> "IndexError", rank |-> 0, cell |-> WatchCell(i, j)]
       ELSE LET r == RankOf(hs[i + 2][at[2]], watch[j + 1], tb)
            IN [err |-> r.err, rank |-> r.rank, cell |-> WatchCell(i, j)]

\* The state of a loop before its first iteration: an all-zero matrix and
\* every iteration still to run.  writes counts the assignments to each
\* cell.
LoopStart(op, args, n_rows, n_cols, tb) ==
    [op |-> op, args |-> args, err |-> "NoError", tb |-> tb,
     pending |-> LoopIterations(n_rows, n_cols),
     rankings |-> Zeros(n_rows, n_cols),
     writes |-> Zeros(n_rows, n_cols)]

\* One iteration has run: its cell is assigned, or its exception ends the
\* call and the remaining iterations never run.
LoopAfter(loop, it, body) ==
    IF body.err # "NoError"
    THEN [loop EXCEPT !.err = body.err]
    ELSE [loop EXCEPT !.pending = @ \ {it},
                      !.rankings[body.cell[1] + 1][body.cell[2] + 1] = body.rank,
                      !.writes[body.cell[1] + 1][body.cell[2] + 1] = @ + 1]

\* rankings() up to its loops (lines 392-399).
StartRankings ==
    /\ ret = NoCall
    /\ \E tb \in TieBreaks :
          ret' = LoopStart("rankings_loop", <<>>, Len(hidden_states) - 1,
                           Len(hidden_states[1]) - n_input_tokens + 1, tb)
    /\ UNCHANGED record

\* One iteration of the loops of rankings.
RankingsIteration ==
    /\ ret.op = "rankings_loop" /\ ret.err = "NoError"
    /\ \E it \in ret.pending :
          ret' = LoopAfter(ret, it,
                           RankingsBody(hidden_states, token_ids, n_input_tokens,
                                        it[1], it[2], ret.tb))
    /\ UNCHANGED record

\* Watch lists of the iteration-wise runs, MaxWatch ids each: the lowest
\* ids of the vocabulary, and the highest ids up to VocabSize (which is not
\* in the vocabulary) in ascending and in descending order.
LoopWatchLists ==
    {[k \in 1..MaxWatch |-> k - 1],
     [k \in 1..MaxWatch |-> VocabSize - MaxWatch + k],
     [k \in 1..MaxWatch |-> VocabSize + 1 - k]}

\* rankings_watch(watch, position) up to its loops (lines 446-454).
StartRankingsWatch ==
    /\ ret = NoCall
    /\ \E watch \in LoopWatchLists, position \in {-1, 1}, tb \in TieBreaks :
          ret' = LoopStart("rankings_watch_loop",
                           [watch |-> watch, position |-> position],
                           Len(hidden_states) - 1, Len(watch), tb)
    /\ UNCHANGED record

\* One iteration of the loops of rankings_watch.
WatchIteration ==
    /\ ret.op = "rankings_watch_loop" /\ ret.err = "NoError"
    /\ \E it \in ret.pending :
          ret' = LoopAfter(ret, it,
                           WatchBody(hidden_states, ret.args.watch,
                                     WatchIndex(ret.args.position),
                                     it[1], it[2], ret.tb))
    /\ UNCHANGED record

\* The loops are over, or an iteration raised: the call ends.
ReturnRankings ==
    /\ ret.op \in {"rankings_loop", "rankings_watch_loop"}
    /\ ret.pending = {} \/ ret.err # "NoError"
    /\ ret' = NoCall
    /\ UNCHANGED record

NextAnyOrder ==
    \/ StartRankings
    \/ RankingsIteration
    \/ StartRankingsWatch
    \/ WatchIteration
    \/ ReturnRankings

\* The two ranking loops with their iterations taken in any order; the
\* nested loops of the source take them by ascending (i, j), one of the
\* orders admitted here.
SpecAnyOrder == InitRank /\ [][NextAnyOrder]_vars

(* ===================== properties of reshape_activations =============== *)
IsReshape == ret.op = "reshape_activations" /\ Len(activations.arr.shape) = 4

\* The layer ids with recorded activations.
CollectedIds ==
    IF IsNone(collect_activations_layer_nums)
    THEN 0..(activations.arr.shape[2] - 1)
    ELSE SeqRange(Get(collect_activations_layer_nums))

\* C1: whenever a layer range is supplied and its resolved bounds are equal,
\* or the lower one is the larger, reshape_activations raises the error of
\* that case and returns no matrix.
C1_EmptyOrInvertedRangeFails ==
    (IsReshape /\ ~(IsNone(ret.args.from_layer) /\ IsNone(ret.args.to_layer))) =>
        LET f == Get(ret.out.from_layer)
            t == Get(ret.out.to_layer)
        IN /\ f = t => (ret.err = "SameLayer" /\ ret.out.matrix = NoArray)
           /\ f > t => (ret.err = "FromLarger" /\ ret.out.matrix = NoArray)

C1_Witness ==
    /\ IsReshape
    /\ ret.args.from_layer = Some(2) /\ ret.args.to_layer = Some(2)
    /\ collect_activations_layer_nums = Some(<<0, 2, 4>>)
    /\ ret.err = "SameLayer"
    /\ ret.out.matrix = NoArray

\* C2: for resolved bounds from_layer < to_layer the call fails, listing the
\* collected ids in ascending order, iff some integer of [from_layer,
\* to_layer) is not a collected id; otherwise it returns a matrix.
C2_MissingLayerFails ==
    (IsReshape /\ ~(IsNone(ret.args.from_layer) /\ IsNone(ret.args.to_layer))) =>
        LET f == Get(ret.out.from_layer)
            t == Get(ret.out.to_layer)
        IN f < t =>
             IF \E x \in f..(t - 1) : x \notin CollectedIds
             THEN /\ ret.err = "LayersNotRecorded"
                  /\ ret.out.matrix = NoArray
                  /\ SeqRange(ret.out.available) = CollectedIds
                  /\ Len(ret.out.available) = Cardinality(CollectedIds)
                  /\ \A k \in 1..(Len(ret.out.available) - 1) :
                        ret.out.available[k] < ret.out.available[k + 1]
             ELSE /\ ret.err = "NoError"
                  /\ ret.out.matrix # NoArray

C2_Witness ==
    /\ IsReshape
    /\ collect_activations_layer_nums = Some(<<0, 2, 4>>)
    /\ ret.args.from_layer = Some(0) /\ ret.args.to_layer = Some(2)
    /\ ret.err = "LayersNotRecorded"
    /\ ret.out.available = <<0, 2, 4>>

IsFullRangeCall ==
    /\ IsReshape
    /\ ret.args.from_layer = Some(0)
    /\ ret.args.to_layer = Some(activations.arr.shape[2])

SameAsUnrestricted ==
    LET u == reshape_activations(activations.arr, None, None,
                                 collect_activations_layer_nums)
    IN /\ ret.err = "NoError"
       /\ u.err = "NoError"
       /\ ret.out.matrix = u.matrix

\* C3 as stated: on an L-layer tensor the explicit range [0, L) returns the
\* matrix the unrestricted call returns.
C3_Original == IsFullRangeCall => SameAsUnrestricted

\* C3 (amended): on an L-layer tensor whose collected layer ids are exactly
\* 0..L-1 (in any order, or not given), the explicit range [0, L) returns
\* the matrix the unrestricted call returns.
C3_FullRangeRoundTrip ==
    (IsFullRangeCall /\ CollectedIds = 0..(activations.arr.shape[2] - 1)) =>
        SameAsUnrestricted

C3_Witness ==
    /\ IsFullRangeCall
    /\ collect_activations_layer_nums = Some(<<1, 0>>)
    /\ activations.arr.shape[1] = 2
    /\ ret.err = "NoError"

IsUnrestrictedCall ==
    /\ IsReshape
    /\ IsNone(ret.args.from_layer) /\ IsNone(ret.args.to_layer)

\* The matrix whose i-th block of neurons is storage row rows[i] of the
\* tensor, entry by entry.
HasBlocks(m, a, rows) ==
    LET B == a.shape[1]
        N == a.shape[3]
        P == a.shape[4]
    IN /\ m.shape = <<Len(rows) * N, B * P>>
       /\ \A i \in 1..Len(rows), n \in 0..(N - 1), b \in 0..(B - 1), p \in 0..(P - 1) :
             m.at[<<(i - 1) * N + n, b * P + p>>] = a.at[<<b, rows[i], n, p>>]

\* C4 as stated: with no bound given, the layer blocks of the matrix are in
\* the order collected_layer_ids lists the layers (storage-row order).
C4_Original ==
    IsUnrestrictedCall =>
        /\ ret.err = "NoError"
        /\ HasBlocks(ret.out.matrix, activations.arr,
                     [i \in 1..activations.arr.shape[2] |-> i - 1])

\* Storage rows ordered by ascending layer id.
RowsByAscendingId ==
    LET L == activations.arr.shape[2]
        ids == IF IsNone(collect_activations_layer_nums)
               THEN [i \in 1..L |-> i - 1]
               ELSE Get(collect_activations_layer_nums)
    IN CHOOSE rows \in InjectiveSeqs(L, 0..(L - 1)) :
          \A i \in 1..(L - 1) : ids[rows[i] + 1] < ids[rows[i + 1] + 1]

\* C4 (amended): with no bound given, all recorded layers are used and the
\* layer blocks of the matrix are in ascending order of layer id; this is
\* the recorded order exactly when collected_layer_ids is ascending.
C4_UnrestrictedUsesAscendingIds ==
    IsUnrestrictedCall =>
        /\ ret.err = "NoError"
        /\ HasBlocks(ret.out.matrix, activations.arr, RowsByAscendingId)

C4_Witness ==
    /\ IsUnrestrictedCall
    /\ collect_activations_layer_nums = Some(<<2, 0>>)
    /\ ret.err = "NoError"

(* ==================== properties of the layer analyses ================= *)
IsLayerPredictions == ret.op = "layer_predictions" /\ ret.err = "NoError"

\* C5: layer_topk returns, for each layer, exactly min(k, vocab_size)
\* tokens, for every k >= 0.
C5_TopkLength ==
    IsLayerPredictions =>
        \A i \in 1..Len(ret.out.data) :
            Len(ret.out.data[i]) = Min2(ret.args.topk, VocabSize)

\* The hidden state the i-th layer of the returned data was computed from.
PredictedFrom(i) ==
    LET l == IF IsNone(ret.args.layer) THEN i + 1 ELSE Get(ret.args.layer) + 2
    IN hidden_states[l][ret.args.position]

RankingsConsecutive(d) == \A r \in 1..Len(d) : d[r].ranking = r

\* The first entry is a token of greatest probability of the distribution.
FirstIsArgMax(d, sm) ==
    d # <<>> =>
        \E v \in Vocab :
            /\ d[1].token = Decode(v)
            /\ d[1].prob = sm[v]
            /\ \A u \in Vocab : ~ProbLess(sm[v], sm[u])

\* C6 as stated: the entries of a layer carry the rankings 1, 2, ... and
\* strictly descending probabilities, and ranking 1 is the arg-max token.
C6_Original ==
    IsLayerPredictions =>
        \A i \in 1..Len(ret.out.data) :
            LET d == ret.out.data[i]
            IN /\ RankingsConsecutive(d)
               /\ \A r \in 1..(Len(d) - 1) : ProbLess(d[r + 1].prob, d[r].prob)
               /\ FirstIsArgMax(d, Softmax(LmHead(PredictedFrom(i))))

\* C6 (amended): the entries of a layer carry the rankings 1, 2, ... and
\* probabilities that never increase (equal probabilities may follow one
\* another), and ranking 1 is a token of greatest probability.
C6_TopkDescending ==
    IsLayerPredictions =>
        \A i \in 1..Len(ret.out.data) :
            LET d == ret.out.data[i]
            IN /\ RankingsConsecutive(d)
               /\ \A r \in 1..(Len(d) - 1) : ~ProbLess(d[r].prob, d[r + 1].prob)
               /\ FirstIsArgMax(d, Softmax(LmHead(PredictedFrom(i))))

C6_Witness ==
    /\ IsLayerPredictions
    /\ ret.args.topk = 2
    /\ Len(ret.out.data) = 2
    /\ Len(ret.out.data[1]) = 2
    /\ ret.out.data[1][1].prob = ret.out.data[1][2].prob
    /\ ProbLess(ret.out.data[2][2].prob, ret.out.data[2][1].prob)

\* What a rank says about the scores: it is V minus the 0-based index of
\* the target in some ascending arrangement of the vocabulary.
RankProps(logits, t, rank) ==
    LET higher == Cardinality({u \in Vocab : logits[u] > logits[t]})
        lower == Cardinality({u \in Vocab : logits[u] < logits[t]})
        distinct == \A u, v \in Vocab : logits[u] = logits[v] => u = v
    IN /\ rank \in 1..VocabSize
       /\ \E s \in InjectiveSeqs(VocabSize, Vocab) :
             /\ \A k \in 1..(VocabSize - 1) : logits[s[k]] <= logits[s[k + 1]]
             /\ \E k \in 1..VocabSize : s[k] = t /\ rank = VocabSize - (k - 1)
       /\ (\A u \in Vocab \ {t} : logits[u] < logits[t]) => rank = 1
       /\ (\A u \in Vocab \ {t} : logits[u] > logits[t]) => rank = VocabSize
       /\ rank >= 1 + higher
       /\ rank <= VocabSize - lower
       /\ distinct => rank = 1 + higher

\* C7: every rank that rankings and rankings_watch return is 1-based and is
\* vocab_size minus the index of the target in the ascending sort of the
\* logits: 1 for the arg-max, vocab_size for the arg-min, within
\* [1, vocab_size], and one more than the number of higher-scoring tokens
\* when the scores are pairwise distinct.
C7_RankOf ==
    /\ (ret.op = "rankings" /\ ret.err = "NoError") =>
          \A i \in 1..Len(ret.out.rankings) :
             \A j \in 1..Len(ret.out.rankings[i]) :
                RankProps(LmHead(hidden_states[i + 1][n_input_tokens - 1 + j]),
                          token_ids[1][n_input_tokens + j],
                          ret.out.rankings[i][j])
    /\ (ret.op = "rankings_watch" /\ ret.err = "NoError" /\ ret.args.position # 0) =>
          \A i \in 1..Len(ret.out.rankings) :
             \A j \in 1..Len(ret.out.rankings[i]) :
                LET level == hidden_states[i + 1]
                    p == IF ret.args.position = -1 THEN Len(level) ELSE ret.args.position
                IN RankProps(LmHead(level[p]), ret.args.watch[j], ret.out.rankings[i][j])

C7_Witness ==
    /\ ret.op = "rankings_watch" /\ ret.err = "NoError"
    /\ ret.args.position = 1
    /\ Len(ret.args.watch) = 2
    /\ ret.out.rankings[1] = <<1, VocabSize>>
    /\ LmHead(hidden_states[2][1])[ret.args.watch[1]] > LmHead(hidden_states[2][1])[ret.args.watch[2]]

\* C8: position(position) raises the error that carries the range
\* [n_input_tokens, total_tokens - 1] iff position lies outside that range;
\* inside it the check passes and the attribution vector at offset
\* position - n_input_tokens is used.
C8_PositionRange ==
    ret.op = "position" =>
        LET p == ret.args.position
            total_tokens == Len(tokens[1])
        IN IF p < n_input_tokens \/ p > total_tokens - 1
           THEN /\ ret.err = "InvalidPosition"
                /\ ret.out.lo = n_input_tokens
                /\ ret.out.hi = total_tokens - 1
                /\ ret.out.data = <<>>
           ELSE /\ ret.err # "InvalidPosition"
                /\ ret.out.importance_id = Some(p - n_input_tokens)

(* ========================= properties of NMF.__init__ ================== *)
IsNmfMade == ret.op = "run_nmf" /\ ret.err = "NoError"

\* C9 as stated: n_components is min(requested, number of positions), for
\* every batch size.
C9_Original ==
    IsNmfMade =>
        ret.out.obj.n_components = Min2(ret.args.n_components, activations.arr.shape[4])

\* C9 (amended): n_components is min(requested, batch size * number of
\* positions), the number of columns of the reshaped matrix; a larger
\* request is capped to it without error and a request within it is kept.
C9_ComponentsCapped ==
    (ret.op = "run_nmf" /\ ret.err \notin {"NoActivationData", "AttributeError"}) =>
        LET columns == activations.arr.shape[1] * activations.arr.shape[4]
            valid == reshape_activations(activations.arr, ret.args.from_layer,
                                         ret.args.to_layer,
                                         collect_activations_layer_nums).err = "NoError"
        IN /\ ret.err = "NoError" <=> valid
           /\ valid =>
                /\ ret.out.obj.n_components = Min2(ret.args.n_components, columns)
                /\ ret.out.obj.components.shape = <<ret.out.obj.n_components, columns>>

C9_Witness ==
    /\ IsNmfMade
    /\ activations.arr.shape[1] = 2
    /\ activations.arr.shape[4] = 1
    /\ ret.args.n_components = 3
    /\ ret.out.obj.n_components = 2

\* C10: when no activation tensor was supplied (activations None or empty)
\* run_nmf raises the 'no activation data' error in the constructor,
\* before reshaping, and yields no NMF object.
C10_NoActivationData ==
    (ret.op = "run_nmf" /\ activations.kind \in {"None", "list"}) =>
        /\ ret.err = "NoActivationData"
        /\ ret.out.stage = "init"
        /\ ret.out.obj = NoNMF

(* ====================== properties of the whole record ================= *)
\* C11: every analysis entry point (layer_predictions, rankings,
\* rankings_watch, saliency, position, attention, explorable, run_nmf and
\* NMF.explore) leaves token_ids, tokens, n_input_tokens, hidden_states,
\* attribution, activations and collect_activations_layer_nums as they
\* were: no step of any call changes a field of the record.
C11_RecordUnchanged ==
    [][<<token_ids, tokens, n_input_tokens, hidden_states, attribution,
         activations, collect_activations_layer_nums>>'
       = <<token_ids, tokens, n_input_tokens, hidden_states, attribution,
           activations, collect_activations_layer_nums>>]_vars

\* NMF.explore has run on an object built from a tensor with negative
\* entries, and the record still holds them.
C11_Witness ==
    /\ ret.op = "explore" /\ ret.err = "NoError"
    /\ activations.kind = "ndarray"
    /\ \E ix \in DOMAIN activations.arr.at : activations.arr.at[ix] < 0
    /\ \A ix \in DOMAIN ret.nmf.activations.at : ret.nmf.activations.at[ix] >= 0

\* The layer ids a successful call selected: the range between the bounds
\* it resolved, or every recorded id in ascending order.
SelectedLayerIds ==
    IF IsNone(ret.args.from_layer) /\ IsNone(ret.args.to_layer)
    THEN SortedSeq(CollectedIds)
    ELSE Range(Get(ret.out.from_layer), Get(ret.out.to_layer))

\* row(l): the index of layer id l in collected_layer_ids, l itself when
\* the list is absent.
StorageRowOf(l) ==
    IF IsNone(collect_activations_layer_nums) THEN l
    ELSE LET ids == Get(collect_activations_layer_nums)
         IN (CHOOSE i \in 1..Len(ids) : ids[i] = l) - 1

\* C12: for a valid selection l_0..l_{m-1} on a tensor A of shape
\* (B, L, N, P), reshape_activations returns M of shape (m*N, B*P) with
\* M[i*N + n, b*P + p] = A[b, row(l_i), n, p].
C12_ReshapeLayout ==
    (IsReshape /\ ret.err = "NoError") =>
        /\ SelectedLayerIds # <<>>
        /\ SeqRange(SelectedLayerIds) \subseteq CollectedIds
        /\ HasBlocks(ret.out.matrix, activations.arr,
                     [i \in 1..Len(SelectedLayerIds) |-> StorageRowOf(SelectedLayerIds[i])])

\* Two layers stored in descending order of id, two sequences of two
\* positions: rows, batch and position all take part in the layout.
C12_Witness ==
    /\ IsReshape /\ ret.err = "NoError"
    /\ collect_activations_layer_nums = Some(<<1, 0>>)
    /\ ret.args.from_layer = Some(0) /\ ret.args.to_layer = Some(2)
    /\ activations.arr.shape = <<2, 2, NNeurons, 2>>
    /\ ret.out.matrix.shape = <<2 * NNeurons, 4>>
    /\ ret.out.matrix.at[<<0, 3>>] = activations.arr.at[<<1, 1, 0, 1>>]

(* ========================= properties of NMF.explore =================== *)
\* C13: when the sequence mixes input and generated tokens
\* (1 <= n_input_tokens < number of token ids) explore emits each
\* component curve c as a curve f one longer, f[i] = c[i] for
\* i < n_input_tokens and f[i] = c[i-1] for i >= n_input_tokens, so that
\* c[n_input_tokens - 1] stands at the indices n_input_tokens - 1 and
\* n_input_tokens and nowhere else; when the sequence has no generated
\* token each curve is emitted unchanged.
C13_ExploreFactors ==
    (ret.op = "explore" /\ ret.err = "NoError") =>
        LET n_ids == Len(token_ids[ret.args.input_sequence + 1])
            nin == n_input_tokens
            comps == ret.nmf.components
            P == comps.shape[2]
            factors == ret.out.data.factors[1]
        IN /\ Len(factors) = comps.shape[1]
           /\ \A k \in 1..Len(factors) :
                 LET f == factors[k]
                     c == [i \in 0..(P - 1) |-> comps.at[<<k - 1, i>>]]
                 IN /\ (1 <= nin /\ nin < n_ids) =>
                          /\ Len(f) = P + 1
                          /\ \A i \in 0..P :
                                f[i + 1] = IF i < nin THEN c[i] ELSE c[i - 1]
                          /\ {i \in 0..P : f[i + 1] = c[nin - 1]} = {nin - 1, nin}
                    /\ n_ids = nin =>
                          /\ Len(f) = P
                          /\ \A i \in 0..(P - 1) : f[i + 1] = c[i]

\* Two input tokens and one generated token: the curve <<c0, c1>> of each
\* of two components is emitted as <<c0, c1, c1>>.
C13_Witness ==
    /\ ret.op = "explore" /\ ret.err = "NoError"
    /\ n_input_tokens = 2
    /\ Len(token_ids[1]) = 3
    /\ ret.nmf.components.shape = <<2, 2>>
    /\ \A k \in 1..2 :
          ret.out.data.factors[1][k] = <<ret.nmf.components.at[<<k - 1, 0>>],
                                         ret.nmf.components.at[<<k - 1, 1>>],
                                         ret.nmf.components.at[<<k - 1, 1>>]>>

\* A sequence without generated tokens: the curves are emitted unchanged.
C13_WitnessNoGeneration ==
    /\ ret.op = "explore" /\ ret.err = "NoError"
    /\ n_input_tokens = Len(token_ids[1])
    /\ ret.out.data.factors[1] = RowsOf(ret.nmf.components)

(* ===================== properties of the ranking loops ================= *)
\* The iterations of a loop that have run.
DoneIterations ==
    LoopIterations(Len(ret.rankings), IF ret.rankings = <<>> THEN 0 ELSE Len(ret.rankings[1]))
        \ ret.pending

\* C14: the embedding layer is left out and each (layer, position) pair is
\* ranked once: the matrix of rankings has n_layers - 1 rows, row i is
\* computed from hidden_states[i + 1], and when the loops are over every
\* cell has been assigned exactly once and holds a rank in [1, vocab_size].
C14_RankingsCells ==
    ret.op = "rankings_loop" =>
        /\ ret.err = "NoError"
        /\ Len(ret.rankings) = Len(hidden_states) - 1
        /\ ret.pending = {} =>
              \A i \in 1..Len(ret.rankings) : \A j \in 1..Len(ret.rankings[i]) :
                 /\ ret.writes[i][j] = 1
                 /\ ret.rankings[i][j] \in 1..VocabSize
                 /\ ret.rankings[i][j] =
                       RankOf(hidden_states[i + 1][n_input_tokens - 1 + j],
                              token_ids[1][n_input_tokens + j], ret.tb).rank

\* The loops of rankings are over on a record of three layers and two
\* generated tokens; the two rows differ.
C14_Witness ==
    /\ ret.op = "rankings_loop" /\ ret.pending = {}
    /\ Len(hidden_states) = 3
    /\ Len(ret.rankings) = 2 /\ Len(ret.rankings[1]) = 2
    /\ ret.rankings[1] # ret.rankings[2]
    /\ \A i \in 1..2, j \in 1..2 : ret.rankings[i][j] >= 1

\* C15: whatever the order in which the (layer, position) iterations of
\* rankings and the (layer, watched token) iterations of rankings_watch
\* run, each result is written to the cell of its own indices, no cell is
\* written twice, and the finished matrix is the one the nested loops
\* produce.
C15_OrderIndependent ==
    /\ ret.op = "rankings_loop" =>
          /\ \A i \in 1..Len(ret.rankings) : \A j \in 1..Len(ret.rankings[i]) :
                /\ ret.writes[i][j] <= 1
                /\ ret.writes[i][j] = 1 <=> <<i - 1, j - 1>> \in DoneIterations
                /\ ret.writes[i][j] = 1 =>
                      ret.rankings[i][j] =
                         RankingsBody(hidden_states, token_ids, n_input_tokens,
                                      i - 1, j - 1, ret.tb).rank
                /\ ret.writes[i][j] = 0 => ret.rankings[i][j] = 0
          /\ ret.pending = {} =>
                ret.rankings = rankings(hidden_states, token_ids, n_input_tokens,
                                        ret.tb).rankings
    /\ ret.op = "rankings_watch_loop" =>
          /\ \A i \in 1..Len(ret.rankings) : \A j \in 1..Len(ret.rankings[i]) :
                /\ ret.writes[i][j] <= 1
                /\ ret.writes[i][j] = 1 <=> <<i - 1, j - 1>> \in DoneIterations
                /\ ret.writes[i][j] = 1 =>
                      ret.rankings[i][j] =
                         WatchBody(hidden_states, ret.args.watch,
                                   WatchIndex(ret.args.position), i - 1, j - 1, ret.tb).rank
                /\ ret.writes[i][j] = 0 => ret.rankings[i][j] = 0
          /\ (ret.pending = {} \/ ret.err # "NoError") =>
                LET sequential == rankings_watch(hidden_states, ret.args.watch,
                                                 ret.args.position, ret.tb)
                IN IF ret.err # "NoError"
                   THEN sequential.err # "NoError"
                   ELSE sequential.err = "NoError" /\ ret.rankings = sequential.rankings

\* The last iteration in loop order ran first: its cell alone is written.
C15_Witness ==
    /\ ret.op = "rankings_watch_loop" /\ ret.err = "NoError"
    /\ Len(ret.rankings) = 2
    /\ ret.writes = <<<<0, 0>>, <<0, 1>>>>
    /\ ret.rankings[2][2] >= 1

\* A run of the watch loops has finished with a full matrix.
C15_WitnessFinished ==
    /\ ret.op = "rankings_watch_loop" /\ ret.pending = {}
    /\ Len(ret.rankings) = 2
    /\ ret.rankings[1] # ret.rankings[2]

\* C16: when the target token id does not occur in the sorted distribution
\* (a watched id outside [0, vocab_size)) the rank computation fails: the
\* iteration raises, its cell is never written, and the call returns no
\* matrix, neither a partial one nor one with a sentinel in that cell.
C16_AbsentTokenFails ==
    ret.op = "rankings_watch_loop" =>
        LET absent == {j \in 1..Len(ret.args.watch) : ret.args.watch[j] \notin Vocab}
        IN /\ \A i \in 1..Len(ret.rankings) : \A j \in absent :
                 /\ <<i - 1, j - 1>> \in ret.pending
                 /\ ret.writes[i][j] = 0
                 /\ ret.rankings[i][j] = 0
           /\ ret.err # "NoError" => (ret.err = "TokenNotFound" /\ absent # {})
           /\ absent = {} => ret.err = "NoError"
           /\ (absent # {} /\ (ret.err # "NoError" \/ DoneIterations = {})) =>
                 LET sequential == rankings_watch(hidden_states, ret.args.watch,
                                                  ret.args.position, ret.tb)
                 IN /\ ret.pending # {}
                    /\ sequential.err = "TokenNotFound"
                    /\ sequential.rankings = <<>>

\* The iteration of the id VocabSize has raised after the ranks of the
\* other watched id were written.
C16_Witness ==
    /\ ret.op = "rankings_watch_loop" /\ ret.err = "TokenNotFound"
    /\ ret.args.watch = <<VocabSize - 1, VocabSize>>
    /\ \A i \in 1..Len(ret.rankings) :
          ret.writes[i] = <<1, 0>> /\ ret.rankings[i][1] >= 1 /\ ret.rankings[i][2] = 0

(* ================= properties of the defaults and positions ============ *)
\* C17: when exactly one bound is given to reshape_activations the other
\* one defaults to the end of the layer axis: from_layer = f alone selects
\* the layer ids [f, L) and to_layer = t alone selects [0, t), with L the
\* size of axis 1 of the tensor, whatever the batch size: the call has the
\* outcome of the call with both bounds written out.
C17_OneBoundDefaults ==
    IsReshape =>
        LET L == activations.arr.shape[2]
            from_layer == ret.args.from_layer
            to_layer == ret.args.to_layer
        IN /\ (~IsNone(from_layer) /\ IsNone(to_layer)) =>
                 ret.out = reshape_activations(activations.arr, from_layer, Some(L),
                                               collect_activations_layer_nums)
           /\ (IsNone(from_layer) /\ ~IsNone(to_layer)) =>
                 ret.out = reshape_activations(activations.arr, Some(0), to_layer,
                                               collect_activations_layer_nums)

\* The matrix of a successful rankings_watch call holds the ranks of the
\* watched ids under the hidden state at 0-based index ix of each layer.
WatchReadsIndex(ix) ==
    \E tb \in TieBreaks :
       \A i \in 1..Len(ret.out.rankings) : \A j \in 1..Len(ret.out.rankings[i]) :
          LET r == RankOf(hidden_states[i + 1][ix + 1], ret.args.watch[j], tb)
          IN r.err = "NoError" /\ r.rank = ret.out.rankings[i][j]

\* C18: rankings_watch never takes one position for another: an explicit
\* position p >= 1 reads index p - 1 of each layer, the last position is
\* read only when position is omitted (-1), and position 0, which has no
\* hidden state, is rejected with an error as layer_predictions rejects it.
C18_WatchPosition ==
    ret.op = "rankings_watch" =>
        LET p == ret.args.position
            last == Len(hidden_states[1]) - 1
        IN /\ p = 0 => ret.err # "NoError"
           /\ (p >= 1 /\ ret.err = "NoError") => WatchReadsIndex(p - 1)
           /\ (p = -1 /\ ret.err = "NoError") => WatchReadsIndex(last)

====
